---- MODULE Spec2Model ----
(***************************************************************************)
(* Model of the /mcp tool handlers of my-github-mcp-server.                *)
(*                                                                         *)
(* One inbound request is handled at a time by `handler`: it reads the     *)
(* X-GITHUB-TOKEN header, registers the tools and dispatches one tool      *)
(* call.  A tool callback runs up to its first `await fetch(...)`, is      *)
(* suspended while the call is in flight, and resumes with the remote's    *)
(* response.  Texts are sequences of chunks: literal fragments of the      *)
(* template strings are single chunks (none of them contains a digit),     *)
(* numbers are rendered digit by digit, so a substring search for "404"    *)
(* is a search for the three consecutive chunks "4","0","4".               *)
(***************************************************************************)
EXTENDS Integers, Sequences, FiniteSets, TLC

\* ---------------------------------------------------------------- bounds
MaxIds == 2

\* ------------------------------------------------------- program constants
GITHUB_API_BASE == <<"https://api.github.com">>
USER_AGENT == <<"GitHub-MCP-Server/1.0.0">>
ACCEPT == <<"application/vnd.github.v3+json">>
DefaultPerPage == 30
DefaultPage == 1

\* ------------------------------------------------------------ JS values
\* `undefined` / `null` of a string-typed slot
Undefined == "<undefined>"

\* JS truthiness of a string | undefined | null value
Truthy(v) == v # Undefined /\ v # ""

\* `${v}` of a string | undefined value
JsToString(v) == IF v = Undefined THEN "undefined" ELSE v

DigitChar == <<"0", "1", "2", "3", "4", "5", "6", "7", "8", "9">>

\* `${n}` of a non-negative integer: its decimal digits
RECURSIVE Digits(_)
Digits(n) ==
    IF n < 10 THEN <<DigitChar[n + 1]>>
    ELSE Digits(n \div 10) \o <<DigitChar[(n % 10) + 1]>>

\* String.prototype.includes
Includes(text, pat) ==
    \E i \in 1..(Len(text) - Len(pat) + 1) :
        SubSeq(text, i, i + Len(pat) - 1) = pat

\* Array.prototype.join("\n") of an array of texts
RECURSIVE JoinLines(_)
JoinLines(lines) ==
    IF Len(lines) = 0 THEN <<>>
    ELSE IF Len(lines) = 1 THEN lines[1]
    ELSE lines[1] \o <<"\n">> \o JoinLines(Tail(lines))

\* encodeURIComponent on the characters the model uses
EncodeChar(c) ==
    IF c = "," THEN "%2C"
    ELSE IF c = " " THEN "%20"
    ELSE IF c = "&" THEN "%26"
    ELSE c

EncodeURIComponent(s) == [i \in 1..Len(s) |-> EncodeChar(s[i])]

\* ------------------------------------------------------------ the inputs
ToolNames ==
    {"get_repository_info", "list_repository_issues", "get_pull_request",
     "search_repositories", "get_user_info", "get_parent_of_sub_issue",
     "list_sub_issues", "get_id_of_issue", "add_sub_issues"}

SoftTools == {"get_parent_of_sub_issue", "list_sub_issues", "get_id_of_issue"}

\* the tools each entry point registers
Registered ==
    [layout |-> {"get_parent_of_sub_issue", "list_sub_issues", "get_id_of_issue",
                 "add_sub_issues"},
     route |-> {"get_repository_info", "list_repository_issues", "get_pull_request",
                "search_repositories", "get_user_info", "get_parent_of_sub_issue",
                "get_id_of_issue"},
     index |-> {"get_repository_info", "list_repository_issues", "get_pull_request",
                "search_repositories", "get_user_info"}]

\* the entry points built on createMcpHandler
\* the names a tools/call request can carry: the documented ones and a stray one
RequestedNames == ToolNames \cup {"no_such_tool"}

McpHandlerEntries == {"layout", "route"}

Owners == {"octo", "acme"}
Repos == {"hello"}
IssueNumbers == {7, 404}
SubIssueIds == {101, 102}
HeaderValues == {Undefined, "", "ghp_request"}
EnvValues == {Undefined, "", "ghp_env"}
GithubTokenEnvValues == {Undefined, "ghp_doc"}

\* an Authorization request header: its text, cut after the scheme; empty when absent
NoHeader == <<>>

AuthorizationValues ==
    {NoHeader, <<"Bearer ", "ghp_auth">>, <<"token ", "ghp_auth">>, <<"ghp_auth">>}

RECURSIVE SeqsUpTo(_, _)
SeqsUpTo(S, n) ==
    IF n = 0 THEN {<<>>}
    ELSE LET shorter == SeqsUpTo(S, n - 1)
         IN  shorter \cup {Append(s, x) : s \in {t \in shorter : Len(t) = n - 1}, x \in S}

\* what the remote can answer to one call
StatusTexts ==
    [ok |-> {<<"OK">>, <<>>},
     notFound |-> {<<"Not Found">>},
     failed |-> {<<"Internal Server Error">>, <<"upstream said ", "4", "0", "4">>}]

Payloads == {"issue", "issueNoUser", "emptyArray", "array"}

HttpResponses ==
    {[kind |-> "http", status |-> 200, statusText |-> st, json |-> p,
      message |-> <<>>, bodyText |-> <<"{...}">>] :
        st \in StatusTexts.ok, p \in Payloads}
    \cup
    {[kind |-> "http", status |-> 201, statusText |-> <<"Created">>, json |-> "issue",
      message |-> <<>>, bodyText |-> <<"{...}">>]}
    \cup
    {[kind |-> "http", status |-> 200, statusText |-> <<"OK">>, json |-> "malformed",
      message |-> m, bodyText |-> <<"<html>">>] :
        m \in {<<"Unexpected token < in JSON at position 0">>,
               <<"Unexpected token 'E', \"Error ", "4", "0", "4", "\" is not valid JSON">>}}
    \cup
    {[kind |-> "http", status |-> 404, statusText |-> st, json |-> "issue",
      message |-> <<>>, bodyText |-> <<"{\"message\":\"Not Found\"}">>] :
        st \in StatusTexts.notFound \cup {<<>>}}
    \cup
    {[kind |-> "http", status |-> 500, statusText |-> st, json |-> "issue",
      message |-> <<>>, bodyText |-> <<"{\"message\":\"Server Error\"}">>] :
        st \in StatusTexts.failed}
    \cup
    {[kind |-> "http", status |-> st, statusText |-> <<>>, json |-> "aborted",
      message |-> <<"terminated">>, bodyText |-> <<>>] :
        st \in {200, 500}}

TransportFailures ==
    {[kind |-> "transport", status |-> 0, statusText |-> <<>>, json |-> "none",
      message |-> m, bodyText |-> <<>>] :
        m \in {<<"fetch failed">>,
               <<"connect ETIMEDOUT 140.82.112.6:", "4", "0", "4", "3">>}}

Responses == HttpResponses \cup TransportFailures

\* answers of the search API: an object with `items` (one hit, or none) and `total_count`
SearchResponses ==
    {[kind |-> "http", status |-> 200, statusText |-> <<"OK">>, json |-> p,
      message |-> <<>>, bodyText |-> <<"{...}">>] :
        p \in {"searchHits", "searchEmpty"}}

\* the answers a call of the given method is given.  The batch handler reads of a
\* response its ok flag, status line and body text and never searches them, so its
\* POSTs are answered from one representative of each class
ResponsesTo(method) ==
    IF method = "GET" THEN Responses
    ELSE {r \in Responses :
            /\ r.json \in {"issue", "malformed", "aborted", "none"}
            /\ r.status # 200 \/ r.json = "malformed"
            /\ Len(r.message) <= 1
            /\ Len(r.statusText) = 1 \/ r.json \in {"aborted", "none"}}

\* Response.ok
ResponseOk(r) == r.status >= 200 /\ r.status <= 299


\* ------------------------------------------------------------- the state
VARIABLES
    env,            \* process.env.GITHUB_PAT_FOR_PROJECT, fixed at process start
    githubTokenEnv, \* process.env.GITHUB_TOKEN, fixed at process start
    entry,          \* the entry point (source file) serving the request
    authorization,  \* the request's Authorization header
    pc,             \* "idle" | "await" | "done": position of the request being handled
    githubTokenHeader, \* request.headers.get("X-GITHUB-TOKEN")
    githubToken,    \* request-scoped token read by `handler` from X-GITHUB-TOKEN
    tool,           \* name of the tool the request calls
    args,           \* validated arguments of the call
    token,          \* credential resolved by the tool callback
    calls,          \* outbound calls issued for this request, in issue order
    inflight,       \* indices into calls that have not completed yet
    responses,      \* index into calls -> the remote's response
    results,        \* add_sub_issues: `results` array (texts)
    errors,         \* add_sub_issues: `errors` array (texts)
    result,         \* the ToolResult returned to the transport
    post,           \* part_000: the POST's parsed body and the envelope of its response
    sessions,       \* part_001: the Server/transport pairs created so far and the POST's position
    requests        \* concurrent requests: slot -> the locals of the request in that slot

vars == <<env, githubTokenEnv, entry, authorization, pc, githubTokenHeader, githubToken, tool, args, token, calls, inflight, responses,
          results, errors, result, post, sessions, requests>>

NoArgs ==
    [owner |-> "", repo |-> "", issue_number |-> 0, username |-> "",
     per_page |-> DefaultPerPage, page |-> DefaultPage, state |-> Undefined, labels |-> <<>>,
     sub_issue_ids |-> <<>>, replace_parent |-> FALSE,
     pull_number |-> 0, query |-> <<>>, sort |-> Undefined, order |-> Undefined, limit |-> 0]

\* `code` is the JSON-RPC error code of an answer that is an RPC error instead of
\* a tool result, 0 for a tool result
NoResult == [text |-> <<>>, isError |-> FALSE, code |-> 0]

\* a ToolResult as the callbacks build it: content of one text block, no isError key
ToolResult(text) == [text |-> text, isError |-> FALSE, code |-> 0]

\* a callback that throws: the tool registry answers with the error's message, isError true
ToolCallbackThrew(message) == [text |-> message, isError |-> TRUE, code |-> 0]

\* ----------------------------------------------------- credential and client
\* handler: `githubTokenHeader || undefined`
RequestToken(headerValue) ==
    IF Truthy(headerValue) THEN headerValue ELSE Undefined

ResolveCredentialEnvFirst(requestToken, fallback) ==
    IF Truthy(fallback) THEN fallback ELSE requestToken

\* tool callbacks: `githubToken || process.env.GITHUB_PAT_FOR_PROJECT`
ResolveCredential(requestToken, fallback) ==
    IF Truthy(requestToken) THEN requestToken ELSE fallback

BaseHeaders == ("User-Agent" :> USER_AGENT) @@ ("Accept" :> ACCEPT)

\* makeGitHubRequest: the headers of the GET
MakeGitHubRequestHeaders(tok) ==
    IF Truthy(tok)
    THEN BaseHeaders @@ ("Authorization" :> <<"token ", tok>>)
    ELSE BaseHeaders

GetCall(endpoint, tok) ==
    [method |-> "GET", url |-> GITHUB_API_BASE \o endpoint,
     headers |-> MakeGitHubRequestHeaders(tok), body |-> <<>>]

GitHubApiErrorMessage(status, statusText) ==
    <<"GitHub API error: ">> \o Digits(status) \o <<" ">> \o statusText

\* makeGitHubRequest after the fetch settles: the payload, or the Error thrown
MakeGitHubRequest(r) ==
    IF r.kind = "transport"
    THEN [threw |-> TRUE, message |-> r.message, payload |-> "none"]
    ELSE IF ~ResponseOk(r)
    THEN [threw |-> TRUE, message |-> GitHubApiErrorMessage(r.status, r.statusText),
          payload |-> "none"]
    ELSE IF r.json \in {"malformed", "aborted"}
    THEN [threw |-> TRUE, message |-> r.message, payload |-> "none"]
    ELSE [threw |-> FALSE, message |-> <<>>, payload |-> r.json]

IsNotFoundErrorNever(message) == FALSE

\* catch blocks: `error instanceof Error && error.message.includes("404")`
IsNotFoundError(message) == Includes(message, <<"4", "0", "4">>)


\* ------------------------------------------------------------- rendering
IssueRef(a) == <<"Issue #">> \o Digits(a.issue_number) \o <<" in ", a.owner, "/", a.repo>>

\* get_parent_of_sub_issue: the 404 text
ParentSoftText(a) == IssueRef(a) \o <<" does not have a parent issue or does not exist.">>

\* list_sub_issues: the 404 text
ListSoftText(a) == IssueRef(a) \o <<" does not exist or has no sub-issues.">>

\* get_id_of_issue: the 404 text
IdSoftText(a) ==
    <<"Issue #">> \o Digits(a.issue_number) \o <<" not found in ", a.owner, "/", a.repo, ".">>

SoftText(t, a) ==
    IF t = "get_parent_of_sub_issue" THEN ParentSoftText(a)
    ELSE IF t = "list_sub_issues" THEN ListSoftText(a)
    ELSE IdSoftText(a)

\* list_sub_issues: the text for a payload that is not a non-empty array
NoSubIssuesText(a) ==
    <<"No sub-issues found for issue #">> \o Digits(a.issue_number)
        \o <<" in ", a.owner, "/", a.repo, ".">>

\* the payloads: "issue" is an object with every field the renderers read,
\* "issueNoUser" lacks `user`, "emptyArray" is [], "array" is an array of one issue
PayloadIsArray(p) == p \in {"emptyArray", "array"}
PayloadLength(p) == IF p = "array" THEN 1 ELSE 0
PayloadHasUser(p) == p = "issue"
PayloadIsObject(p) == p \in {"issue", "issueNoUser", "searchHits", "searchEmpty"}
\* `content.items`: is it an array, and of how many hits
PayloadHasItems(p) == p \in {"searchHits", "searchEmpty"}
PayloadItemCount(p) == IF p = "searchHits" THEN 1 ELSE 0

\* `${content.<field>}`: the field's text, "undefined" when the payload has no such field
Field(p, name) == IF PayloadIsObject(p) THEN "<" \o name \o ">" ELSE "undefined"

TypeErrorLogin == <<"Cannot read properties of undefined (reading 'login')">>

\* get_parent_of_sub_issue, the try block after the await: the text, or the TypeError
\* of `content.user.login`
ParentRender(a, p) ==
    IF ~PayloadHasUser(p)
    THEN [threw |-> TRUE, message |-> TypeErrorLogin, text |-> <<>>]
    ELSE [threw |-> FALSE, message |-> <<>>,
          text |-> <<"Parent Issue for #">> \o Digits(a.issue_number)
                   \o <<":\nIssue #", Field(p, "number"), ": ", Field(p, "title"),
                        "\nState: ", Field(p, "state"), "\nAuthor: ", "<login>",
                        "\nCreated: ", Field(p, "created_at"),
                        "\nUpdated: ", Field(p, "updated_at"),
                        "\nURL: ", Field(p, "html_url"),
                        "\n\nDescription:\n", Field(p, "body")>>]

\* list_sub_issues, the try block after the await
ListRender(a, p) ==
    IF ~PayloadIsArray(p) \/ PayloadLength(p) = 0
    THEN NoSubIssuesText(a)
    ELSE <<"Sub-issues for #">> \o Digits(a.issue_number) \o <<" in ", a.owner, "/", a.repo>>
         \o (IF PayloadLength(p) = a.per_page
             THEN <<" (showing page ">> \o Digits(a.page) \o <<")">>
             ELSE <<>>)
         \o <<":\n\n", "#<number>: <title> (<state>) - <html_url>">>

\* get_id_of_issue, the try block after the await
IdRender(a, p) ==
    <<"Issue #">> \o Digits(a.issue_number)
        \o <<" in ", a.owner, "/", a.repo, " has ID: ", Field(p, "id")>>

\* get_repository_info (route.ts)
RepositoryRender(p) ==
    <<"Repository: ", Field(p, "full_name"), "\nDescription: ", Field(p, "description"),
      "\nStars: ", Field(p, "stargazers_count"), "\nForks: ", Field(p, "forks_count"),
      "\nLanguage: ", Field(p, "language"), "\nOpen Issues: ", Field(p, "open_issues_count"),
      "\nCreated: ", Field(p, "created_at"), "\nUpdated: ", Field(p, "updated_at"),
      "\nClone URL: ", Field(p, "clone_url"), "\nHomepage: ", Field(p, "homepage")>>

\* get_user_info (route.ts)
UserRender(p) ==
    <<"User: ", Field(p, "login"), "\nName: ", Field(p, "name"), "\nBio: ", Field(p, "bio"),
      "\nCompany: ", Field(p, "company"), "\nLocation: ", Field(p, "location"),
      "\nPublic Repos: ", Field(p, "public_repos"), "\nFollowers: ", Field(p, "followers"),
      "\nFollowing: ", Field(p, "following"), "\nCreated: ", Field(p, "created_at"),
      "\nProfile: ", Field(p, "html_url")>>

\* ------------------------------------------------------------- endpoints
IssuePath(a) ==
    <<"/repos/", a.owner, "/", a.repo, "/issues/">> \o Digits(a.issue_number)

ParentEndpoint(a) == IssuePath(a) \o <<"/parent">>

IdEndpoint(a) == IssuePath(a)

ListEndpoint(a) ==
    IssuePath(a) \o <<"/sub_issues?per_page=">> \o Digits(a.per_page)
        \o <<"&page=">> \o Digits(a.page)
        \o (IF Truthy(a.state) THEN <<"&state=", a.state>> ELSE <<>>)
        \o (IF Len(a.labels) > 0 THEN <<"&labels=">> \o EncodeURIComponent(a.labels) ELSE <<>>)

RepositoryEndpoint(a) == <<"/repos/", a.owner, "/", a.repo>>

UserEndpoint(a) == <<"/users/", a.username>>


\* ------------------------------------------------- add_sub_issues pieces
NoIdsText == <<"Error: No sub-issue IDs provided. Please provide at least one sub-issue ID.">>

EmptyGuardNever(ids) == FALSE

\* `!sub_issue_ids || sub_issue_ids.length === 0`
EmptyGuard(ids) == Len(ids) = 0

RequestBodyAlways(id, replace_parent) ==
    <<"{\"sub_issue_id\":">> \o Digits(id)
        \o <<",\"replace_parent\":", IF replace_parent THEN "true" ELSE "false">>
        \o <<"}">>

\* JSON.stringify({ sub_issue_id, ...(replace_parent && { replace_parent }) })
RequestBody(id, replace_parent) ==
    <<"{\"sub_issue_id\":">> \o Digits(id)
        \o (IF replace_parent THEN <<",\"replace_parent\":true">> ELSE <<>>)
        \o <<"}">>

\* the fetch of one loop iteration
PostCall(a, tok, id) ==
    [method |-> "POST",
     url |-> GITHUB_API_BASE \o IssuePath(a) \o <<"/sub_issues">>,
     headers |-> BaseHeaders @@ ("Authorization" :> <<"token ", JsToString(tok)>>)
                    @@ ("Content-Type" :> <<"application/json">>),
     body |-> RequestBody(id, a.replace_parent)]

\* the leading check-mark glyph of the source text is written "(check)"
SuccessText(a, id) ==
    <<"(check) Successfully added sub-issue ID ">> \o Digits(id)
        \o <<" to issue #">> \o Digits(a.issue_number)

HttpErrorText(id, r) ==
    <<"Sub-issue ID ">> \o Digits(id) \o <<": ">> \o Digits(r.status) \o <<" ">>
        \o r.statusText \o <<" - ">> \o r.bodyText

CaughtText(id, message) == <<"Sub-issue ID ">> \o Digits(id) \o <<": ">> \o message

PostOutcomeNoStatusCheck(a, id, r) ==
    IF r.kind = "transport" \/ r.json \in {"malformed", "aborted"}
    THEN [ok |-> FALSE, caught |-> TRUE, text |-> CaughtText(id, r.message)]
    ELSE [ok |-> TRUE, caught |-> FALSE, text |-> SuccessText(a, id)]

\* one loop iteration after its fetch settled: what is pushed, and on which array
PostOutcome(a, id, r) ==
    IF r.kind = "transport"
    THEN [ok |-> FALSE, caught |-> TRUE, text |-> CaughtText(id, r.message)]
    ELSE IF ~ResponseOk(r)
    THEN IF r.json = "aborted"
         THEN [ok |-> FALSE, caught |-> TRUE, text |-> CaughtText(id, r.message)]
         ELSE [ok |-> FALSE, caught |-> FALSE, text |-> HttpErrorText(id, r)]
    ELSE IF r.json \in {"malformed", "aborted"}
    THEN [ok |-> FALSE, caught |-> TRUE, text |-> CaughtText(id, r.message)]
    ELSE [ok |-> TRUE, caught |-> FALSE, text |-> SuccessText(a, id)]

AbortsBatchOnThrow(outcome) == outcome.caught

\* the try/catch is inside the loop body: no outcome of an item leaves the loop
AbortsBatch(outcome) == FALSE

LoopNextAll(started, n, pending) == n

LoopNextFirstOnly(started, n, pending) ==
    IF pending = {} /\ started < 1 /\ started < n THEN started + 1 ELSE started

\* `for (... of sub_issue_ids) { await fetch(...) }`: the index of the last entry
\* whose POST is started now; the next one starts once nothing is pending
LoopNext(started, n, pending) ==
    IF pending = {} /\ started < n THEN started + 1 ELSE started

SummaryText(a, res, errs) ==
    <<"Batch operation completed: ">> \o Digits(Len(res)) \o <<"/">>
        \o Digits(Len(a.sub_issue_ids))
        \o <<" sub-issues added successfully to issue #">> \o Digits(a.issue_number)
        \o <<" in ", a.owner, "/", a.repo>>
        \o (IF Len(res) > 0 THEN <<"\n\nSuccessful additions:\n">> \o JoinLines(res) ELSE <<>>)
        \o (IF Len(errs) > 0 THEN <<"\n\nErrors encountered:\n">> \o JoinLines(errs) ELSE <<>>)

BatchResultErrorOnFailure(a, res, errs) ==
    [text |-> SummaryText(a, res, errs), isError |-> Len(errs) > 0, code |-> 0]

\* the return after the loop
BatchResult(a, res, errs) == ToolResult(SummaryText(a, res, errs))

\* part_000 before a POST: no body read, no response built
NoBody == [json |-> "none", method |-> Undefined, id |-> Undefined]
NoPost == [body |-> NoBody, status |-> 0, id |-> Undefined]

\* part_001 before a POST: nothing created
NoSessions == [pc |-> "idle", objects |-> <<>>, status |-> 0]

\* the slots concurrent requests are served in
Slots == {1, 2}
IdleRequest ==
    [pc |-> "idle", entry |-> "none", header |-> Undefined, authorization |-> NoHeader,
     githubToken |-> Undefined, owner |-> "", calls |-> <<>>, response |-> "none",
     result |-> NoResult]
NoRequests == [i \in Slots |-> IdleRequest]

\* ------------------------------------------------------------------ Init
Init ==
    /\ env \in EnvValues
    /\ githubTokenEnv \in GithubTokenEnvValues
    /\ entry = "none"
    /\ authorization = NoHeader
    /\ pc = "idle"
    /\ githubTokenHeader = Undefined
    /\ githubToken = Undefined
    /\ tool = "none"
    /\ args = NoArgs
    /\ token = Undefined
    /\ calls = <<>>
    /\ inflight = {}
    /\ responses = <<>>
    /\ results = <<>>
    /\ errors = <<>>
    /\ result = NoResult
    /\ post = NoPost
    /\ sessions = NoSessions
    /\ requests = NoRequests

\* --------------------------------------------------------------- actions
\* handler(request) up to the tool callback's credential resolution
Begin(h, t, a) ==
    /\ pc = "idle"
    /\ githubTokenHeader' = h
    /\ githubToken' = RequestToken(h)
    /\ tool' = t
    /\ args' = a
    /\ token' = ResolveCredential(RequestToken(h), env)
    /\ responses' = <<>>
    /\ results' = <<>>
    /\ errors' = <<>>
    /\ entry' \in {e \in McpHandlerEntries : t \in Registered[e]}
    /\ authorization' = NoHeader
    /\ UNCHANGED <<env, githubTokenEnv, post, sessions, requests>>

\* the callback suspends on `await makeGitHubRequest(endpoint, token)`
StartGet(endpoint) ==
    /\ calls' = <<GetCall(endpoint, token')>>
    /\ inflight' = {1}
    /\ pc' = "await"
    /\ result' = NoResult

\* the callback resumes and returns (or throws)
FinishGet(t, r, res) ==
    /\ pc = "await"
    /\ tool = t
    /\ inflight = {1}
    /\ inflight' = {}
    /\ responses' = (1 :> r)
    /\ result' = res
    /\ pc' = "done"
    /\ UNCHANGED <<env, githubTokenEnv, post, sessions, requests, entry, authorization, githubTokenHeader, githubToken,
                   tool, args, token, calls, results, errors>>

\* catch (error) { if (error.message.includes("404")) return soft; throw error }
Catch(message, softText) ==
    IF IsNotFoundError(message) THEN ToolResult(softText) ELSE ToolCallbackThrew(message)

IssueArgs(o, rp, n) == [NoArgs EXCEPT !.owner = o, !.repo = rp, !.issue_number = n]

GetParentOfSubIssue ==
    \E h \in HeaderValues, o \in Owners, rp \in Repos, n \in IssueNumbers :
        /\ Begin(h, "get_parent_of_sub_issue", IssueArgs(o, rp, n))
        /\ StartGet(ParentEndpoint(args'))

GetParentOfSubIssueResume ==
    \E r \in ResponsesTo("GET") :
        LET m == MakeGitHubRequest(r)
            t == ParentRender(args, m.payload)
        IN  FinishGet("get_parent_of_sub_issue", r,
                IF m.threw THEN Catch(m.message, ParentSoftText(args))
                ELSE IF t.threw THEN Catch(t.message, ParentSoftText(args))
                ELSE ToolResult(t.text))

\* z.number().optional().default(30): any number passes, the documented maximum is 100
DocumentedMaxPerPage == 100
PerPages == {DefaultPerPage, 1, DocumentedMaxPerPage + 1}
Pages == {DefaultPage}
States == {Undefined, "open"}
Labels == {<<>>, <<"b", "u", "g", ",", "u", "i">>}

ListSubIssues ==
    \E h \in HeaderValues, o \in Owners, rp \in Repos, n \in IssueNumbers,
       pp \in PerPages, pg \in Pages, st \in States, lb \in Labels :
        /\ Begin(h, "list_sub_issues",
                 [IssueArgs(o, rp, n) EXCEPT !.per_page = pp, !.page = pg,
                                             !.state = st, !.labels = lb])
        /\ StartGet(ListEndpoint(args'))

ListSubIssuesResume ==
    \E r \in ResponsesTo("GET") :
        LET m == MakeGitHubRequest(r)
        IN  FinishGet("list_sub_issues", r,
                IF m.threw THEN Catch(m.message, ListSoftText(args))
                ELSE ToolResult(ListRender(args, m.payload)))

GetIdOfIssue ==
    \E h \in HeaderValues, o \in Owners, rp \in Repos, n \in IssueNumbers :
        /\ Begin(h, "get_id_of_issue", IssueArgs(o, rp, n))
        /\ StartGet(IdEndpoint(args'))

GetIdOfIssueResume ==
    \E r \in ResponsesTo("GET") :
        LET m == MakeGitHubRequest(r)
        IN  FinishGet("get_id_of_issue", r,
                IF m.threw THEN Catch(m.message, IdSoftText(args))
                ELSE ToolResult(IdRender(args, m.payload)))

GetRepositoryInfo ==
    \E h \in HeaderValues, o \in Owners, rp \in Repos :
        /\ Begin(h, "get_repository_info", IssueArgs(o, rp, 0))
        /\ StartGet(RepositoryEndpoint(args'))

GetRepositoryInfoResume ==
    \E r \in ResponsesTo("GET") :
        LET m == MakeGitHubRequest(r)
        IN  FinishGet("get_repository_info", r,
                IF m.threw THEN ToolCallbackThrew(m.message)
                ELSE ToolResult(RepositoryRender(m.payload)))

Usernames == {"octocat"}

GetUserInfo ==
    \E h \in HeaderValues, u \in Usernames :
        /\ Begin(h, "get_user_info", [NoArgs EXCEPT !.username = u])
        /\ StartGet(UserEndpoint(args'))

GetUserInfoResume ==
    \E r \in ResponsesTo("GET") :
        LET m == MakeGitHubRequest(r)
        IN  FinishGet("get_user_info", r,
                IF m.threw THEN ToolCallbackThrew(m.message)
                ELSE ToolResult(UserRender(m.payload)))

\* ---- route.ts: list_repository_issues, get_pull_request, search_repositories
DefaultState == "open"
DefaultOrder == "desc"
RoutePerPage == 10

\* z.enum([...]).optional().default(d) on an absent or valid value
WithDefault(v, dflt) == IF v = Undefined THEN dflt ELSE v

RouteIssuesEndpoint(a) ==
    <<"/repos/", a.owner, "/", a.repo, "/issues?state=", a.state, "&per_page=">>
        \o Digits(RoutePerPage)

TypeErrorMap == <<"content.map is not a function">>
TypeErrorItems == <<"Cannot read properties of undefined (reading 'map')">>

\* `content.map(issue => ...).join("\n")` of an array payload
IssueLines(p) ==
    IF PayloadLength(p) = 0 THEN <<>>
    ELSE <<"#<number>: <title> (<state>) - <html_url>">>

\* list_repository_issues (route.ts) after the await: the text, or the TypeError
RouteIssuesRender(a, p) ==
    IF ~PayloadIsArray(p)
    THEN [threw |-> TRUE, message |-> TypeErrorMap, text |-> <<>>]
    ELSE [threw |-> FALSE, message |-> <<>>,
          text |-> <<"Issues for ", a.owner, "/", a.repo, " (", a.state, "):\n\n">>
                   \o IssueLines(p)]

ListRepositoryIssues ==
    \E h \in HeaderValues, o \in Owners, rp \in Repos, st \in {Undefined, "closed"} :
        /\ Begin(h, "list_repository_issues",
                 [IssueArgs(o, rp, 0) EXCEPT !.state = WithDefault(st, DefaultState)])
        /\ StartGet(RouteIssuesEndpoint(args'))

ListRepositoryIssuesResume ==
    \E r \in ResponsesTo("GET") :
        LET m == MakeGitHubRequest(r)
            t == RouteIssuesRender(args, m.payload)
        IN  FinishGet("list_repository_issues", r,
                IF m.threw THEN ToolCallbackThrew(m.message)
                ELSE IF t.threw THEN ToolCallbackThrew(t.message)
                ELSE ToolResult(t.text))

PullNumbers == {3}

PullEndpoint(a) == <<"/repos/", a.owner, "/", a.repo, "/pulls/">> \o Digits(a.pull_number)

\* get_pull_request (route.ts) after the await
PullRender(a, p) ==
    IF ~PayloadHasUser(p)
    THEN [threw |-> TRUE, message |-> TypeErrorLogin, text |-> <<>>]
    ELSE [threw |-> FALSE, message |-> <<>>,
          text |-> <<"Pull Request #", Field(p, "number"), ": ", Field(p, "title"),
                     "\nState: ", Field(p, "state"), "\nAuthor: ", "<login>",
                     "\nCreated: ", Field(p, "created_at"),
                     "\nUpdated: ", Field(p, "updated_at"),
                     "\nMergeable: ", Field(p, "mergeable"),
                     "\nAdditions: ", Field(p, "additions"),
                     "\nDeletions: ", Field(p, "deletions"),
                     "\nChanged Files: ", Field(p, "changed_files"),
                     "\nURL: ", Field(p, "html_url"),
                     "\n\nDescription:\n", Field(p, "body")>>]

GetPullRequest ==
    \E h \in HeaderValues, o \in Owners, rp \in Repos, n \in PullNumbers :
        /\ Begin(h, "get_pull_request", [IssueArgs(o, rp, 0) EXCEPT !.pull_number = n])
        /\ StartGet(PullEndpoint(args'))

GetPullRequestResume ==
    \E r \in ResponsesTo("GET") :
        LET m == MakeGitHubRequest(r)
            t == PullRender(args, m.payload)
        IN  FinishGet("get_pull_request", r,
                IF m.threw THEN ToolCallbackThrew(m.message)
                ELSE IF t.threw THEN ToolCallbackThrew(t.message)
                ELSE ToolResult(t.text))

Queries == {<<"t", "e", "s", "t">>, <<"a", " ", "b", "&", "c">>}
RouteSorts == {Undefined, "forks"}
RouteOrders == {Undefined, "asc"}

RouteSearchEndpoint(a) ==
    <<"/search/repositories?q=">> \o EncodeURIComponent(a.query)
        \o <<"&per_page=">> \o Digits(RoutePerPage)
        \o (IF Truthy(a.sort) THEN <<"&sort=", a.sort>> ELSE <<>>)
        \o (IF Truthy(a.order) THEN <<"&order=", a.order>> ELSE <<>>)

\* search_repositories (route.ts) after the await
RouteSearchRender(a, p) ==
    IF ~PayloadHasItems(p)
    THEN [threw |-> TRUE, message |-> TypeErrorItems, text |-> <<>>]
    ELSE [threw |-> FALSE, message |-> <<>>,
          text |-> <<"Search results for \"">> \o a.query
                   \o <<"\" (", Field(p, "total_count"), " total):\n\n">>
                   \o (IF PayloadItemCount(p) = 0 THEN <<>>
                       ELSE <<"<full_name> (<stargazers_count>) - <description> - <html_url>">>)]

SearchRepositories ==
    \E h \in HeaderValues, q \in Queries, so \in RouteSorts, od \in RouteOrders :
        /\ Begin(h, "search_repositories",
                 [NoArgs EXCEPT !.query = q, !.sort = so,
                                !.order = WithDefault(od, DefaultOrder)])
        /\ StartGet(RouteSearchEndpoint(args'))

SearchRepositoriesResume ==
    \E r \in ResponsesTo("GET") \cup SearchResponses :
        LET m == MakeGitHubRequest(r)
            t == RouteSearchRender(args, m.payload)
        IN  FinishGet("search_repositories", r,
                IF m.threw THEN ToolCallbackThrew(m.message)
                ELSE IF t.threw THEN ToolCallbackThrew(t.message)
                ELSE ToolResult(t.text))

\* the loop of add_sub_issues at a point where `pending` calls are in flight:
\* start what the loop starts now, or return the summary when nothing is left
BatchContinue(a, tok, issued, pending, res, errs) ==
    LET started == Len(issued)
        last == LoopNext(started, Len(a.sub_issue_ids), pending)
        newCalls == [k \in 1..(last - started) |->
                        PostCall(a, tok, a.sub_issue_ids[started + k])]
        nowPending == pending \cup ((started + 1)..last)
    IN  /\ calls' = issued \o newCalls
        /\ inflight' = nowPending
        /\ IF nowPending = {}
           THEN pc' = "done" /\ result' = BatchResult(a, res, errs)
           ELSE pc' = "await" /\ result' = NoResult

AddSubIssues ==
    \E h \in HeaderValues, o \in Owners, rp \in Repos, n \in IssueNumbers,
       ids \in SeqsUpTo(SubIssueIds, MaxIds), rep \in BOOLEAN :
        /\ Begin(h, "add_sub_issues",
                 [IssueArgs(o, rp, n) EXCEPT !.sub_issue_ids = ids, !.replace_parent = rep])
        /\ IF EmptyGuard(ids)
           THEN /\ calls' = <<>>
                /\ inflight' = {}
                /\ pc' = "done"
                /\ result' = ToolResult(NoIdsText)
           ELSE BatchContinue(args', token', <<>>, {}, <<>>, <<>>)

AddSubIssuesResume ==
    /\ pc = "await"
    /\ tool = "add_sub_issues"
    /\ \E k \in inflight, r \in ResponsesTo("POST") :
        LET out == PostOutcome(args, args.sub_issue_ids[k], r)
            res == IF out.ok THEN Append(results, out.text) ELSE results
            errs == IF out.ok THEN errors ELSE Append(errors, out.text)
        IN  /\ responses' = (k :> r) @@ responses
            /\ IF AbortsBatch(out)
               THEN /\ calls' = calls
                    /\ inflight' = {}
                    /\ pc' = "done"
                    /\ result' = ToolCallbackThrew(r.message)
                    /\ results' = results
                    /\ errors' = errors
               ELSE /\ results' = res
                    /\ errors' = errs
                    /\ BatchContinue(args, token, calls, inflight \ {k}, res, errs)
    /\ UNCHANGED <<env, githubTokenEnv, post, sessions, requests, entry, authorization, githubTokenHeader, githubToken,
                   tool, args, token>>

\* JSON-RPC error code the tool registry answers an unregistered name with
InvalidParams == -32602

\* what the registry of createMcpHandler answers for a name no server.tool(...) call
\* registered: depending on the SDK release, the JSON-RPC error "Tool <name> not found"
\* or a tool result carrying that message with isError true
ToolNotFoundOutcomes(name) ==
    {[text |-> <<"MCP error ">> \o <<"-">> \o Digits(-InvalidParams)
               \o <<": Tool ", name, " not found">>,
      isError |-> FALSE, code |-> InvalidParams],
     [text |-> <<"MCP error ">> \o <<"-">> \o Digits(-InvalidParams)
               \o <<": Tool ", name, " not found">>,
      isError |-> TRUE, code |-> 0]}

\* a tools/call whose name the entry point did not register: no callback runs
DispatchUnregistered ==
    \E h \in HeaderValues, e \in McpHandlerEntries :
      \E name \in RequestedNames \ Registered[e] :
        /\ pc = "idle"
        /\ entry' = e
        /\ authorization' = NoHeader
        /\ githubTokenHeader' = h
        /\ githubToken' = RequestToken(h)
        /\ tool' = name
        /\ args' = NoArgs
        /\ token' = Undefined
        /\ calls' = <<>>
        /\ inflight' = {}
        /\ responses' = <<>>
        /\ results' = <<>>
        /\ errors' = <<>>
        /\ pc' = "done"
        /\ result' \in ToolNotFoundOutcomes(name)
        /\ UNCHANGED <<env, githubTokenEnv, post, sessions, requests>>

\* `return mcpHandler(request)`: the response leaves, nothing of the request is kept
Return ==
    /\ pc = "done"
    /\ pc' = "idle"
    /\ githubTokenHeader' = Undefined
    /\ githubToken' = Undefined
    /\ tool' = "none"
    /\ args' = NoArgs
    /\ token' = Undefined
    /\ calls' = <<>>
    /\ inflight' = {}
    /\ responses' = <<>>
    /\ results' = <<>>
    /\ errors' = <<>>
    /\ result' = NoResult
    /\ entry' = "none"
    /\ authorization' = NoHeader
    /\ UNCHANGED <<env, githubTokenEnv, post, sessions, requests>>

Next ==
    \/ GetParentOfSubIssue
    \/ GetParentOfSubIssueResume
    \/ ListSubIssues
    \/ ListSubIssuesResume
    \/ GetIdOfIssue
    \/ GetIdOfIssueResume
    \/ GetRepositoryInfo
    \/ GetRepositoryInfoResume
    \/ GetUserInfo
    \/ GetUserInfoResume
    \/ ListRepositoryIssues
    \/ ListRepositoryIssuesResume
    \/ GetPullRequest
    \/ GetPullRequestResume
    \/ SearchRepositories
    \/ SearchRepositoriesResume
    \/ AddSubIssues
    \/ AddSubIssuesResume
    \/ DispatchUnregistered
    \/ Return

Spec == Init /\ [][Next]_vars

\* the add_sub_issues handler alone, with a remote that answers every call it was
\* sent: each awaited fetch eventually resolves or rejects
NextBatch ==
    \/ AddSubIssues
    \/ AddSubIssuesResume
    \/ Return

SpecBatchFair == Init /\ [][NextBatch]_vars /\ WF_vars(AddSubIssuesResume)

TypeOK ==
    /\ env \in EnvValues
    /\ pc \in {"idle", "await", "done"}
    /\ tool \in RequestedNames \cup {"none", "tools/list", "undefined"}
    /\ inflight \subseteq 1..Len(calls)
    /\ result.isError \in BOOLEAN


\* ======================================================================
\* index.ts: the standalone server (setRequestHandler(CallToolRequestSchema))
\* ======================================================================

\* ---- request.params.arguments: every field holds a JSON value or is absent
Absent == [t |-> "absent", s |-> <<>>, n |-> 0]
Str(chunks) == [t |-> "string", s |-> chunks, n |-> 0]
Num(k) == [t |-> "number", s |-> <<>>, n |-> k]

AllFields ==
    {"owner", "repo", "state", "limit", "pull_number", "query", "sort", "order", "username"}

BagOf(o, rp, st, lim, pn, q, so, u) ==
    ("owner" :> o) @@ ("repo" :> rp) @@ ("state" :> st) @@ ("limit" :> lim)
        @@ ("pull_number" :> pn) @@ ("query" :> q) @@ ("sort" :> so) @@ ("username" :> u)
        @@ ("order" :> Absent)

EmptyBag == [f \in AllFields |-> Absent]

OwnerValues == {Str(<<"octo">>), Str(<<"a", "/", "b">>), Absent, Num(7)}
RepoValues == {Str(<<"hello">>), Absent}
StateValues == {Absent, Str(<<"closed">>), Str(<<"bogus">>)}
LimitValues == {Absent, Num(0), Num(1), Num(100), Num(101), Str(<<"five">>)}
PullValues == {Num(3), Absent, Str(<<"three">>)}
QueryValues == {Str(<<"t", "e", "s", "t">>), Str(<<"a", " ", "b">>), Absent}
SortValues == {Absent, Str(<<"forks">>), Str(<<"name">>)}
UsernameValues == {Str(<<"mona">>), Str(<<"o", "/", "x", "?", "y">>), Absent, Num(1)}

BagsFor(name) ==
    IF name = "get_repository_info"
    THEN {BagOf(o, rp, Absent, Absent, Absent, Absent, Absent, Absent) :
            o \in OwnerValues, rp \in RepoValues}
    ELSE IF name = "list_repository_issues"
    THEN {BagOf(o, rp, st, lim, Absent, Absent, Absent, Absent) :
            o \in OwnerValues, rp \in RepoValues, st \in StateValues, lim \in LimitValues}
    ELSE IF name = "get_pull_request"
    THEN {BagOf(o, rp, Absent, Absent, pn, Absent, Absent, Absent) :
            o \in OwnerValues, rp \in RepoValues, pn \in PullValues}
    ELSE IF name = "search_repositories"
    THEN {BagOf(Absent, Absent, Absent, lim, Absent, q, so, Absent) :
            q \in QueryValues, so \in SortValues, lim \in LimitValues}
    ELSE IF name = "get_user_info"
    THEN {BagOf(Absent, Absent, Absent, Absent, Absent, Absent, Absent, u) :
            u \in UsernameValues}
    ELSE {EmptyBag,
          BagOf(Str(<<"octo">>), Str(<<"hello">>), Absent, Absent, Absent, Absent, Absent,
                Absent)}

\* ---- the zod schemas: their fields in declaration order
\* z.string()
StringField(name) ==
    [name |-> name, kind |-> "string", hasDefault |-> FALSE, dflt |-> Absent,
     enum |-> {}, ranged |-> FALSE, min |-> 0, max |-> 0]

\* z.number()
NumberField(name) ==
    [name |-> name, kind |-> "number", hasDefault |-> FALSE, dflt |-> Absent,
     enum |-> {}, ranged |-> FALSE, min |-> 0, max |-> 0]

\* z.number().min(lo).max(hi).default(d)
RangedField(name, lo, hi, d) ==
    [name |-> name, kind |-> "number", hasDefault |-> TRUE, dflt |-> Num(d),
     enum |-> {}, ranged |-> TRUE, min |-> lo, max |-> hi]

\* z.enum(values).default(d)
EnumField(name, values, d) ==
    [name |-> name, kind |-> "enum", hasDefault |-> TRUE, dflt |-> Str(d),
     enum |-> values, ranged |-> FALSE, min |-> 0, max |-> 0]

MinLimit == 1
MaxLimit == 100
DefaultLimit == 10

GetRepositoryInfoSchema == <<StringField("owner"), StringField("repo")>>

ListRepositoryIssuesSchema ==
    <<StringField("owner"), StringField("repo"),
      EnumField("state", {<<"open">>, <<"closed">>, <<"all">>}, <<"open">>),
      RangedField("limit", MinLimit, MaxLimit, DefaultLimit)>>

GetPullRequestSchema ==
    <<StringField("owner"), StringField("repo"), NumberField("pull_number")>>

SearchRepositoriesSchema ==
    <<StringField("query"),
      EnumField("sort", {<<"stars">>, <<"forks">>, <<"updated">>}, <<"stars">>),
      RangedField("limit", MinLimit, MaxLimit, DefaultLimit)>>

GetUserInfoSchema == <<StringField("username")>>

\* the schema each case of the switch parses with
SchemaOf(name) ==
    IF name = "get_repository_info" THEN GetRepositoryInfoSchema
    ELSE IF name = "list_repository_issues" THEN ListRepositoryIssuesSchema
    ELSE IF name = "get_pull_request" THEN GetPullRequestSchema
    ELSE IF name = "search_repositories" THEN SearchRepositoriesSchema
    ELSE GetUserInfoSchema

CheckFieldNoRange(f, v) ==
    IF v.t = "absent" THEN (IF f.hasDefault THEN "ok" ELSE "invalid_type")
    ELSE IF f.kind = "string" THEN (IF v.t = "string" THEN "ok" ELSE "invalid_type")
    ELSE IF f.kind = "number" THEN (IF v.t # "number" THEN "invalid_type" ELSE "ok")
    ELSE IF v.t # "string" THEN "invalid_type"
    ELSE IF v.s \in f.enum THEN "ok"
    ELSE "invalid_enum_value"

CheckFieldAnyType(f, v) ==
    IF v.t = "absent" THEN (IF f.hasDefault THEN "ok" ELSE "invalid_type")
    ELSE IF f.kind = "number" /\ v.t = "number"
    THEN IF f.ranged /\ v.n < f.min THEN "too_small"
         ELSE IF f.ranged /\ v.n > f.max THEN "too_big"
         ELSE "ok"
    ELSE "ok"

\* zod's check of one field: "ok", or the code of the issue it raises
CheckField(f, v) ==
    IF v.t = "absent" THEN (IF f.hasDefault THEN "ok" ELSE "invalid_type")
    ELSE IF f.kind = "string" THEN (IF v.t = "string" THEN "ok" ELSE "invalid_type")
    ELSE IF f.kind = "number"
    THEN IF v.t # "number" THEN "invalid_type"
         ELSE IF f.ranged /\ v.n < f.min THEN "too_small"
         ELSE IF f.ranged /\ v.n > f.max THEN "too_big"
         ELSE "ok"
    ELSE IF v.t # "string" THEN "invalid_type"
    ELSE IF v.s \in f.enum THEN "ok"
    ELSE "invalid_enum_value"

\* ZodError.message: the issues in field order, each with its path and its code
RECURSIVE ZodIssues(_, _)
ZodIssues(schema, bag) ==
    IF Len(schema) = 0 THEN <<>>
    ELSE LET f == Head(schema)
             c == CheckField(f, bag[f.name])
         IN  (IF c = "ok" THEN <<>> ELSE <<"{path: ", f.name, ", code: ", c, "}">>)
             \o ZodIssues(Tail(schema), bag)

\* Schema.parse(args) when it returns: the values, defaults filled in
Parsed(schema, bag) ==
    [name \in AllFields |->
        LET fs == {schema[i] : i \in 1..Len(schema)}
        IN  IF \E f \in fs : f.name = name /\ f.hasDefault /\ bag[name].t = "absent"
            THEN (CHOOSE f \in fs : f.name = name).dflt
            ELSE bag[name]]

\* `${value}` of a parsed argument
ArgText(v) == IF v.t = "number" THEN Digits(v.n) ELSE v.s

\* ---- the endpoint each case builds from its parsed arguments
IndexEndpoint(name, a) ==
    IF name = "get_repository_info"
    THEN <<"/repos/">> \o ArgText(a.owner) \o <<"/">> \o ArgText(a.repo)
    ELSE IF name = "list_repository_issues"
    THEN <<"/repos/">> \o ArgText(a.owner) \o <<"/">> \o ArgText(a.repo)
         \o <<"/issues?state=">> \o ArgText(a.state) \o <<"&per_page=">> \o ArgText(a.limit)
    ELSE IF name = "get_pull_request"
    THEN <<"/repos/">> \o ArgText(a.owner) \o <<"/">> \o ArgText(a.repo)
         \o <<"/pulls/">> \o ArgText(a.pull_number)
    ELSE IF name = "search_repositories"
    THEN <<"/search/repositories?q=">> \o EncodeURIComponent(ArgText(a.query))
         \o <<"&sort=">> \o ArgText(a.sort) \o <<"&per_page=">> \o ArgText(a.limit)
    ELSE <<"/users/">> \o ArgText(a.username)

\* ---- the header the handler takes the token from
StartsWith(h, prefix) == Len(h) > 0 /\ h[1] = prefix

\* 'Bearer x' -> slice(7), 'token x' -> slice(6), anything else -> undefined
AuthorizationToken(h) ==
    IF StartsWith(h, "Bearer ") \/ StartsWith(h, "token ")
    THEN (IF Len(h) > 1 THEN h[2] ELSE "")
    ELSE Undefined

\* ---- makeGitHubRequest of index.ts: it returns a GitHubApiResponse, never throws
IndexUrl(endpoint) ==
    IF StartsWith(endpoint, "http") THEN endpoint ELSE GITHUB_API_BASE \o endpoint

IndexCall(endpoint, tok) ==
    [method |-> "GET", url |-> IndexUrl(endpoint),
     headers |-> MakeGitHubRequestHeaders(tok), body |-> <<>>]

\* the catch block: { error: `Network error: ${message}` }
NetworkError(message) ==
    [hasData |-> FALSE, data |-> "none", hasError |-> TRUE,
     error |-> <<"Network error: ">> \o message, hasStatus |-> FALSE, status |-> 0]

IndexMakeGitHubRequestBoth(r) ==
    IF r.kind = "transport" THEN NetworkError(r.message)
    ELSE IF r.json = "aborted" THEN NetworkError(r.message)
    ELSE [hasData |-> r.json # "malformed", data |-> r.json, hasError |-> ~ResponseOk(r),
          error |-> <<"GitHub API error: ">> \o Digits(r.status) \o <<" ">> \o r.statusText
                    \o <<" - ">> \o r.bodyText,
          hasStatus |-> TRUE, status |-> r.status]

\* the GitHubApiResponse for what the fetch settled with
IndexMakeGitHubRequest(r) ==
    IF r.kind = "transport" THEN NetworkError(r.message)
    ELSE IF ~ResponseOk(r)
    THEN IF r.json = "aborted" THEN NetworkError(r.message)
         ELSE [hasData |-> FALSE, data |-> "none", hasError |-> TRUE,
               error |-> <<"GitHub API error: ">> \o Digits(r.status) \o <<" ">>
                         \o r.statusText \o <<" - ">> \o r.bodyText,
               hasStatus |-> TRUE, status |-> r.status]
    ELSE IF r.json \in {"malformed", "aborted"} THEN NetworkError(r.message)
    ELSE [hasData |-> TRUE, data |-> r.json, hasError |-> FALSE, error |-> <<>>,
          hasStatus |-> TRUE, status |-> r.status]

RetriesOnError(apiResult, attempts) == apiResult.hasError /\ attempts < 2

\* makeGitHubRequest has no loop around its fetch: no outcome makes it call again
Retries(apiResult, attempts) == FALSE

\* ---- what each case renders from result.data
TypeErrorToLocaleString ==
    <<"Cannot read properties of undefined (reading 'toLocaleString')">>

Rendered(text) == [threw |-> FALSE, message |-> <<>>, text |-> text]
RenderThrew(message) == [threw |-> TRUE, message |-> message, text |-> <<>>]

\* list_repository_issues: the text for data that is not a non-empty array
NoIssuesText(a) ==
    <<"No ">> \o ArgText(a.state) \o <<" issues found in ">> \o ArgText(a.owner)
        \o <<"/">> \o ArgText(a.repo)

\* search_repositories: the text when `items` is not a non-empty array
NoRepositoriesText(a) ==
    <<"No repositories found for query: \"">> \o ArgText(a.query) \o <<"\"">>

IndexRender(name, a, p) ==
    IF name = "get_repository_info"
    THEN IF ~PayloadIsObject(p) THEN RenderThrew(TypeErrorToLocaleString)
         ELSE Rendered(<<"# ", Field(p, "full_name"), "\n\n**Description:** ",
                         Field(p, "description"), "\n\n**Statistics:**\n- Stars: ",
                         Field(p, "stargazers_count"), "\n\n**URLs:**\n- Repository: ",
                         Field(p, "html_url")>>)
    ELSE IF name = "list_repository_issues"
    THEN IF ~PayloadIsArray(p) \/ PayloadLength(p) = 0 THEN Rendered(NoIssuesText(a))
         ELSE Rendered(<<"# Issues in ">> \o ArgText(a.owner) \o <<"/">> \o ArgText(a.repo)
                       \o <<" (">> \o ArgText(a.state)
                       \o <<")\n\n", "## #<number>: <title>\n- **Author:** <login>\n">>)
    ELSE IF name = "get_pull_request"
    THEN IF ~PayloadHasUser(p) THEN RenderThrew(TypeErrorLogin)
         ELSE Rendered(<<"# Pull Request #", Field(p, "number"), ": ", Field(p, "title"),
                         "\n\n**Status:** ", Field(p, "state"), "\n**Author:** ", "<login>",
                         "\n\n**URLs:**\n- Pull Request: ", Field(p, "html_url")>>)
    ELSE IF name = "search_repositories"
    THEN IF ~PayloadHasItems(p) \/ PayloadItemCount(p) = 0
         THEN Rendered(NoRepositoriesText(a))
         ELSE Rendered(<<"# Search Results for \"">> \o ArgText(a.query)
                       \o <<"\" (", Field(p, "total_count"), " total)\n\n",
                            "## <full_name>\n- **URL:** <html_url>\n">>)
    ELSE IF ~PayloadIsObject(p) THEN RenderThrew(TypeErrorToLocaleString)
         ELSE Rendered(<<"# ", Field(p, "login"), "\n\n**Type:** ", Field(p, "type"),
                         "\n\n**Statistics:**\n- Followers: ", Field(p, "followers"),
                         "\n\n**Account:**\n- Profile: ", Field(p, "html_url")>>)

\* `if (result.error) return { content: [...`Error: ${result.error}`] }`
ApiErrorResult(apiResult) == ToolResult(<<"Error: ">> \o apiResult.error)

\* the default case of the switch
UnknownToolResult(name) ==
    [text |-> <<"Unknown tool: ", name>>, isError |-> TRUE, code |-> 0]

\* the catch around the switch: `Error: ${error.message}`, isError true
CaughtResult(message) ==
    [text |-> <<"Error: ">> \o message, isError |-> TRUE, code |-> 0]

IndexListedToolsTwice ==
    <<"get_repository_info", "list_repository_issues", "get_pull_request",
      "search_repositories", "get_user_info", "get_user_info">>

\* the names of the tools array the ListTools handler returns, in its order
IndexListedTools ==
    <<"get_repository_info", "list_repository_issues", "get_pull_request",
      "search_repositories", "get_user_info">>

\* the ListTools handler: it reads nothing of the request and returns the fixed array
ListTools ==
    \E h \in AuthorizationValues :
        /\ pc = "idle"
        /\ entry' = "index"
        /\ authorization' = h
        /\ tool' = "tools/list"
        /\ pc' = "done"
        /\ result' = ToolResult(IndexListedTools)
        /\ UNCHANGED <<env, githubTokenEnv, post, sessions, requests, githubTokenHeader, githubToken, args, token,
                       calls, inflight, responses, results, errors>>

\* ---- the CallTool handler up to its first await (or its return)
CallTool ==
    \E h \in AuthorizationValues, x \in {Undefined, "ghp_request"}, name \in RequestedNames :
      \E bag \in BagsFor(name) :
        LET tok == AuthorizationToken(h)
            issues == ZodIssues(SchemaOf(name), bag)
        IN  /\ pc = "idle"
            /\ entry' = "index"
            /\ authorization' = h
            /\ githubTokenHeader' = x
            /\ githubToken' = tok
            /\ token' = tok
            /\ tool' = name
            /\ args' = bag
            /\ inflight' = {}
            /\ responses' = <<>>
            /\ results' = <<>>
            /\ errors' = <<>>
            /\ IF name \notin Registered.index
               THEN calls' = <<>> /\ pc' = "done" /\ result' = UnknownToolResult(name)
               ELSE IF issues # <<>>
               THEN calls' = <<>> /\ pc' = "done" /\ result' = CaughtResult(issues)
               ELSE /\ calls' = <<IndexCall(IndexEndpoint(name, Parsed(SchemaOf(name), bag)),
                                            tok)>>
                    /\ pc' = "await"
                    /\ result' = NoResult
            /\ UNCHANGED <<env, githubTokenEnv, post, sessions, requests>>

\* the handler resumes with the GitHubApiResponse and returns
CallToolResume ==
    /\ pc = "await"
    /\ entry = "index"
    /\ \E r \in ResponsesTo("GET") \cup SearchResponses :
        LET apiResult == IndexMakeGitHubRequest(r)
            a == Parsed(SchemaOf(tool), args)
            t == IndexRender(tool, a, apiResult.data)
        IN  /\ responses' = (Len(calls) :> r) @@ responses
            /\ IF Retries(apiResult, Len(calls))
               THEN /\ calls' = Append(calls, calls[Len(calls)])
                    /\ pc' = "await"
                    /\ result' = NoResult
               ELSE /\ calls' = calls
                    /\ pc' = "done"
                    /\ result' = IF apiResult.hasError THEN ApiErrorResult(apiResult)
                                 ELSE IF t.threw THEN CaughtResult(t.message)
                                 ELSE ToolResult(t.text)
    /\ UNCHANGED <<env, githubTokenEnv, post, sessions, requests, entry, authorization, githubTokenHeader, githubToken,
                   tool, args, token, inflight, results, errors>>

NextServer ==
    \/ ListTools
    \/ CallTool
    \/ CallToolResume
    \/ Return

SpecServer == Init /\ [][NextServer]_vars


\* ======================================================================
\* part_000: the hand-written JSON-RPC route (export async function POST)
\* ======================================================================

\* JSON null, as `id: null` carries it
Null == "<null>"

\* JSON-RPC error codes of the route
MethodNotFound == -32601
InternalError == -32603
ParseError == -32700

\* ---- the schemas of part_000: no limit, state and order optional with defaults,
\* sort optional without one
PostListRepositoryIssuesSchema ==
    <<StringField("owner"), StringField("repo"),
      EnumField("state", {<<"open">>, <<"closed">>, <<"all">>}, <<"open">>)>>

\* z.enum(values).optional()
OptionalEnumField(name, values) ==
    [name |-> name, kind |-> "enum", hasDefault |-> TRUE, dflt |-> Absent,
     enum |-> values, ranged |-> FALSE, min |-> 0, max |-> 0]

PostSearchRepositoriesSchema ==
    <<StringField("query"),
      OptionalEnumField("sort", {<<"stars">>, <<"forks">>, <<"help-wanted-issues">>,
                                 <<"updated">>}),
      EnumField("order", {<<"asc">>, <<"desc">>}, <<"desc">>)>>

PostSchemaOf(name) ==
    IF name = "get_repository_info" THEN GetRepositoryInfoSchema
    ELSE IF name = "list_repository_issues" THEN PostListRepositoryIssuesSchema
    ELSE IF name = "get_pull_request" THEN GetPullRequestSchema
    ELSE IF name = "search_repositories" THEN PostSearchRepositoriesSchema
    ELSE GetUserInfoSchema

\* the names the switch of the route has a case for
PostCases ==
    {"get_repository_info", "list_repository_issues", "get_pull_request",
     "search_repositories", "get_user_info"}

\* ---- what request.json() can give
\* body.params of a tools/call: absent, null, a non-object, or { name, arguments }
PostBags(name) ==
    IF name = "search_repositories"
    THEN {("order" :> od) @@ BagOf(Absent, Absent, Absent, Absent, Absent, q, so, Absent) :
            q \in {Str(<<"t", "e", "s", "t">>), Absent},
            so \in {Absent, Str(<<"forks">>)},
            od \in {Absent, Str(<<"asc">>), Str(<<"up">>)}}
    ELSE {b \in BagsFor(name) : b["limit"] = Absent}

ParamsValues ==
    {[t |-> k, name |-> Undefined, hasArguments |-> FALSE, arguments |-> EmptyBag] :
        k \in {"absent", "null", "number"}}
    \cup
    {[t |-> "object", name |-> n, hasArguments |-> FALSE, arguments |-> EmptyBag] :
        n \in {Undefined, "get_user_info"}}
    \cup
    UNION {{[t |-> "object", name |-> n, hasArguments |-> TRUE, arguments |-> b] :
              b \in PostBags(n)} : n \in PostCases \cup {"add_sub_issues"}}

NoParams == [t |-> "absent", name |-> Undefined, hasArguments |-> FALSE, arguments |-> EmptyBag]

RequestIds == {Undefined, "1"}

\* the body: text that is not JSON, JSON null, a JSON number or array, or an object
Bodies ==
    {[json |-> k, method |-> Undefined, id |-> Undefined, params |-> NoParams] :
        k \in {"unparseable", "null", "number", "array"}}
    \cup
    {[json |-> "object", method |-> m, id |-> i, params |-> NoParams] :
        m \in {Undefined, "tools/list", "initialize"}, i \in RequestIds}
    \cup
    {[json |-> "object", method |-> "tools/call", id |-> i, params |-> p] :
        i \in RequestIds, p \in ParamsValues}

\* ---- the endpoint each case builds
PostEndpoint(name, a) ==
    IF name = "get_repository_info"
    THEN <<"/repos/">> \o ArgText(a["owner"]) \o <<"/">> \o ArgText(a["repo"])
    ELSE IF name = "list_repository_issues"
    THEN <<"/repos/">> \o ArgText(a["owner"]) \o <<"/">> \o ArgText(a["repo"])
         \o <<"/issues?state=">> \o ArgText(a["state"]) \o <<"&per_page=">>
         \o Digits(RoutePerPage)
    ELSE IF name = "get_pull_request"
    THEN <<"/repos/">> \o ArgText(a["owner"]) \o <<"/">> \o ArgText(a["repo"])
         \o <<"/pulls/">> \o ArgText(a["pull_number"])
    ELSE IF name = "search_repositories"
    THEN <<"/search/repositories?q=">> \o EncodeURIComponent(ArgText(a["query"]))
         \o <<"&per_page=">> \o Digits(RoutePerPage)
         \o (IF a["sort"].t # "absent" THEN <<"&sort=">> \o ArgText(a["sort"]) ELSE <<>>)
         \o (IF a["order"].t # "absent" THEN <<"&order=">> \o ArgText(a["order"]) ELSE <<>>)
    ELSE <<"/users/">> \o ArgText(a["username"])

\* ---- the text each case builds from the payload, or the TypeError it runs into
PostRender(name, a, p) ==
    IF name = "get_repository_info" THEN Rendered(RepositoryRender(p))
    ELSE IF name = "list_repository_issues"
    THEN IF ~PayloadIsArray(p) THEN RenderThrew(TypeErrorMap)
         ELSE Rendered(<<"Issues for ">> \o ArgText(a["owner"]) \o <<"/">>
                       \o ArgText(a["repo"]) \o <<" (">> \o ArgText(a["state"])
                       \o <<"):\n\n">> \o IssueLines(p))
    ELSE IF name = "get_pull_request"
    THEN IF ~PayloadHasUser(p) THEN RenderThrew(TypeErrorLogin)
         ELSE Rendered(<<"Pull Request #", Field(p, "number"), ": ", Field(p, "title"),
                         "\nState: ", Field(p, "state"), "\nAuthor: ", "<login>",
                         "\nURL: ", Field(p, "html_url")>>)
    ELSE IF name = "search_repositories"
    THEN IF ~PayloadHasItems(p) THEN RenderThrew(TypeErrorItems)
         ELSE Rendered(<<"Search results for \"">> \o ArgText(a["query"])
                       \o <<"\" (", Field(p, "total_count"), " total):\n\n">>
                       \o (IF PayloadItemCount(p) = 0 THEN <<>>
                           ELSE <<"<full_name> - <html_url>">>))
    ELSE Rendered(UserRender(p))

\* ---- the JSON-RPC answers: `result` holds the error code (0 for a result) and the
\* text or message, `post` the HTTP status and the id
RpcResult(text) == [text |-> text, isError |-> FALSE, code |-> 0]
RpcError(code, message) == [text |-> message, isError |-> FALSE, code |-> code]

\* the outer catch: Parse error, id null, HTTP 400
ParseErrorAnswer == RpcError(ParseError, <<"Parse error">>)

\* does reading the request throw into the outer catch: the body is not JSON, it is
\* null (body.method), or it is a tools/call whose params cannot be destructured
\* (the destructuring stands before the inner try)
ThrowsToOuterCatch(body) ==
    \/ body.json \in {"unparseable", "null"}
    \/ body.json = "object" /\ body.method = "tools/call"
         /\ body.params.t \in {"absent", "null"}

\* ---- POST up to its first await on the remote (or its return)
Post ==
    \E x \in {Undefined, "", "ghp_request"}, body \in Bodies :
        LET name == body.params.name
            bag == body.params.arguments
            issues == IF body.params.hasArguments THEN ZodIssues(PostSchemaOf(name), bag)
                      ELSE <<"{path: ", "", ", code: ", "invalid_type", "}">>
            echo == [body |-> body, status |-> 200, id |-> body.id]
        IN  /\ pc = "idle"
            /\ entry' = "part_000"
            /\ authorization' = NoHeader
            /\ githubTokenHeader' = x
            /\ githubToken' = RequestToken(x)
            /\ token' = RequestToken(x)
            /\ tool' = IF body.json = "object" /\ body.method = "tools/call"
                            /\ body.params.t = "object"
                       THEN JsToString(name) ELSE "none"
            /\ args' = bag
            /\ inflight' = {}
            /\ responses' = <<>>
            /\ results' = <<>>
            /\ errors' = <<>>
            /\ IF ThrowsToOuterCatch(body)
               THEN /\ calls' = <<>> /\ pc' = "done" /\ result' = ParseErrorAnswer
                    /\ post' = [body |-> body, status |-> 400, id |-> Null]
               ELSE IF body.json = "object" /\ body.method = "tools/list"
               THEN /\ calls' = <<>> /\ pc' = "done" /\ post' = echo
                    /\ result' = RpcResult(IndexListedTools)
               ELSE IF body.json = "object" /\ body.method = "tools/call"
               THEN /\ post' = echo
                    /\ IF name \notin PostCases
                       THEN /\ calls' = <<>> /\ pc' = "done"
                            /\ result' = RpcError(MethodNotFound,
                                                  <<"Unknown tool: ", JsToString(name)>>)
                       ELSE IF issues # <<>>
                       THEN /\ calls' = <<>> /\ pc' = "done"
                            /\ result' = RpcError(InternalError, <<"Error: ">> \o issues)
                       ELSE /\ calls' = <<GetCall(PostEndpoint(name,
                                                      Parsed(PostSchemaOf(name), bag)),
                                                  RequestToken(x))>>
                            /\ pc' = "await"
                            /\ result' = NoResult
               ELSE /\ calls' = <<>> /\ pc' = "done" /\ post' = echo
                    /\ result' = RpcError(MethodNotFound,
                                          <<"Method not found: ",
                                            IF body.json = "object"
                                            THEN JsToString(body.method) ELSE "undefined">>)
            /\ UNCHANGED <<env, githubTokenEnv, sessions, requests>>

\* the case resumes with the payload, or the inner catch with what was thrown
PostResume ==
    /\ pc = "await"
    /\ entry = "part_000"
    /\ \E r \in ResponsesTo("GET") \cup SearchResponses :
        LET m == MakeGitHubRequest(r)
            t == PostRender(tool, Parsed(PostSchemaOf(tool), args), m.payload)
        IN  /\ responses' = (1 :> r)
            /\ result' = IF m.threw THEN RpcError(InternalError, <<"Error: ">> \o m.message)
                          ELSE IF t.threw
                          THEN RpcError(InternalError, <<"Error: ">> \o t.message)
                          ELSE RpcResult(t.text)
    /\ pc' = "done"
    /\ UNCHANGED <<env, githubTokenEnv, sessions, requests, post, entry, authorization,
                   githubTokenHeader, githubToken, tool, args, token, calls, inflight,
                   results, errors>>

\* `return NextResponse.json(...)`: the response leaves, nothing of the POST is kept
PostReturn ==
    /\ pc = "done"
    /\ entry = "part_000"
    /\ pc' = "idle"
    /\ entry' = "none"
    /\ authorization' = NoHeader
    /\ githubTokenHeader' = Undefined
    /\ githubToken' = Undefined
    /\ tool' = "none"
    /\ args' = NoArgs
    /\ token' = Undefined
    /\ calls' = <<>>
    /\ inflight' = {}
    /\ responses' = <<>>
    /\ results' = <<>>
    /\ errors' = <<>>
    /\ result' = NoResult
    /\ post' = NoPost
    /\ UNCHANGED <<env, githubTokenEnv, sessions, requests>>

NextPost ==
    \/ Post
    \/ PostResume
    \/ PostReturn

SpecPost == Init /\ [][NextPost]_vars

\* ======================================================================
\* part_001: the per-request server route (export async function POST)
\* ======================================================================

\* `new Server(...)` and `new StreamableHTTPServerTransport(...)` of one POST, open
CreatedObjects ==
    <<[kind |-> "server", closed |-> FALSE], [kind |-> "transport", closed |-> FALSE]>>

\* transport.close(); mcpServer.close();
CloseAll(objects) == [k \in DOMAIN objects |-> [objects[k] EXCEPT !.closed = TRUE]]

\* the catch block: 500 with Internal server error, id null
InternalServerErrorStatus == 500

\* what the transport writes through mockRes.writeHead while it handles the request
MockStatusCodes == {200, 202, 400, 406}

\* POST up to `await mcpServer.connect(transport)`: the body is read, the Server and
\* the transport are created; a body that is not JSON goes to the catch block
SessionPost ==
    \E x \in {Undefined, "ghp_request"}, body \in Bodies :
        /\ sessions.pc = "idle"
        /\ entry' = "part_001"
        /\ githubTokenHeader' = x
        /\ post' = [body |-> body, status |-> 0, id |-> Undefined]
        /\ sessions' = IF body.json = "unparseable"
                       THEN [pc |-> "returned", objects |-> <<>>,
                             status |-> InternalServerErrorStatus]
                       ELSE [pc |-> "connect", objects |-> CreatedObjects, status |-> 0]
        /\ UNCHANGED <<env, githubTokenEnv, requests, authorization, pc, githubToken, tool,
                       args, token, calls, inflight, responses, results, errors, result>>

\* connect settles: the POST goes on to `await transport.handleRequest(...)`, or the
\* rejection is caught
SessionConnected ==
    /\ sessions.pc = "connect"
    /\ \E rejected \in BOOLEAN :
        sessions' = IF rejected
                    THEN [sessions EXCEPT !.pc = "returned",
                                          !.status = InternalServerErrorStatus]
                    ELSE [sessions EXCEPT !.pc = "handle"]
    /\ UNCHANGED <<env, githubTokenEnv, requests, post, entry, authorization, pc,
                   githubTokenHeader, githubToken, tool, args, token, calls, inflight,
                   responses, results, errors, result>>

\* handleRequest settles: both objects are closed and the collected response is
\* returned, or what it threw is caught and 500 is returned
SessionHandled ==
    /\ sessions.pc = "handle"
    /\ \E threw \in BOOLEAN, code \in MockStatusCodes :
        sessions' = IF threw
                    THEN [sessions EXCEPT !.pc = "returned",
                                          !.status = InternalServerErrorStatus]
                    ELSE [pc |-> "returned", objects |-> CloseAll(sessions.objects),
                          status |-> code]
    /\ UNCHANGED <<env, githubTokenEnv, requests, post, entry, authorization, pc,
                   githubTokenHeader, githubToken, tool, args, token, calls, inflight,
                   responses, results, errors, result>>

\* the Response leaves; the objects of the POST are not referenced any more
SessionReturn ==
    /\ sessions.pc = "returned"
    /\ sessions' = NoSessions
    /\ post' = NoPost
    /\ entry' = "none"
    /\ githubTokenHeader' = Undefined
    /\ UNCHANGED <<env, githubTokenEnv, requests, authorization, pc, githubToken, tool,
                   args, token, calls, inflight, responses, results, errors, result>>

NextSession ==
    \/ SessionPost
    \/ SessionConnected
    \/ SessionHandled
    \/ SessionReturn

SpecSession == Init /\ [][NextSession]_vars

\* ======================================================================
\* concurrent requests: two get_repository_info calls in flight at once, each served
\* by the handler closure of route.ts or by the shared server of index.ts
\* ======================================================================

SlotEntries == {"route", "index"}
SlotHeaders == {Undefined, "ghp_request", "ghp_other"}
SlotAuthorizations == {NoHeader, <<"Bearer ", "ghp_auth">>, <<"token ", "ghp_mine">>}

\* the answers the remote gives in this specification: one of each class
SlotResponses ==
    {r \in Responses :
        \/ r.status = 200 /\ r.json \in {"issue", "array"} /\ r.statusText = <<"OK">>
        \/ r.status = 500 /\ r.json = "issue" /\ r.statusText = <<"Internal Server Error">>
        \/ r.kind = "transport" /\ r.message = <<"fetch failed">>}

SlotRepo == "hello"

LocalsOfOther(reqs, i) ==
    IF \E j \in Slots : j # i /\ reqs[j].pc # "idle"
    THEN reqs[CHOOSE j \in Slots : j # i /\ reqs[j].pc # "idle"]
    ELSE reqs[i]

\* the locals a callback reads: `githubToken` is a const of the handler invocation
\* (route.ts, layout.tsx) or of the CallTool invocation (index.ts), never a
\* module-level variable
LocalsOf(reqs, i) == reqs[i]

\* the credential the callback of a request sends
SlotCredential(req, fallback) ==
    IF req.entry = "route" THEN ResolveCredential(req.githubToken, fallback)
    ELSE req.githubToken

SlotCall(req, fallback) ==
    IF req.entry = "route"
    THEN GetCall(RepositoryEndpoint([NoArgs EXCEPT !.owner = req.owner, !.repo = SlotRepo]),
                 SlotCredential(req, fallback))
    ELSE IndexCall(IndexEndpoint("get_repository_info",
                                 BagOf(Str(<<req.owner>>), Str(<<SlotRepo>>), Absent, Absent,
                                       Absent, Absent, Absent, Absent)),
                   SlotCredential(req, fallback))

SlotResultStamped(i, req, r) ==
    [text |-> <<"request ">> \o Digits(i), isError |-> FALSE, code |-> 0]

\* the result of get_repository_info for the answer r: a function of the arguments
\* and the answer alone; no counter, clock or random value goes into it
SlotResult(i, req, r) ==
    IF req.entry = "route"
    THEN LET m == MakeGitHubRequest(r)
         IN  IF m.threw THEN ToolCallbackThrew(m.message)
             ELSE ToolResult(RepositoryRender(m.payload))
    ELSE LET apiResult == IndexMakeGitHubRequest(r)
             t == IndexRender("get_repository_info",
                              BagOf(Str(<<req.owner>>), Str(<<SlotRepo>>), Absent, Absent,
                                    Absent, Absent, Absent, Absent),
                              apiResult.data)
         IN  IF apiResult.hasError THEN ApiErrorResult(apiResult)
             ELSE IF t.threw THEN CaughtResult(t.message)
             ELSE ToolResult(t.text)

\* a request arrives: the handler reads its own headers into its locals
SlotHandler(i) ==
    \E e \in SlotEntries, h \in SlotHeaders, a \in SlotAuthorizations, o \in Owners :
        /\ requests[i].pc = "idle"
        /\ requests' =
             [requests EXCEPT ![i] =
                [IdleRequest EXCEPT
                    !.pc = "callback",
                    !.entry = e,
                    !.header = IF e = "route" THEN h ELSE Undefined,
                    !.authorization = IF e = "index" THEN a ELSE NoHeader,
                    !.githubToken = IF e = "route" THEN RequestToken(h)
                                    ELSE AuthorizationToken(a),
                    !.owner = o]]
        /\ UNCHANGED <<env, githubTokenEnv, post, sessions, entry, authorization, pc,
                       githubTokenHeader, githubToken, tool, args, token, calls, inflight,
                       responses, results, errors, result>>

\* the tool callback runs up to `await makeGitHubRequest(...)`
SlotCallback(i) ==
    /\ requests[i].pc = "callback"
    /\ requests' = [requests EXCEPT ![i].pc = "await",
                                    ![i].calls = <<SlotCall(LocalsOf(requests, i), env)>>]
    /\ UNCHANGED <<env, githubTokenEnv, post, sessions, entry, authorization, pc,
                   githubTokenHeader, githubToken, tool, args, token, calls, inflight,
                   responses, results, errors, result>>

\* the remote answers the call of this request; the callback returns
SlotResume(i) ==
    /\ requests[i].pc = "await"
    /\ \E r \in SlotResponses :
        requests' = [requests EXCEPT ![i].pc = "done",
                                     ![i].response = r,
                                     ![i].result = SlotResult(i, requests[i], r)]
    /\ UNCHANGED <<env, githubTokenEnv, post, sessions, entry, authorization, pc,
                   githubTokenHeader, githubToken, tool, args, token, calls, inflight,
                   responses, results, errors, result>>

\* the response of this request leaves
SlotRespond(i) ==
    /\ requests[i].pc = "done"
    /\ requests' = [requests EXCEPT ![i] = IdleRequest]
    /\ UNCHANGED <<env, githubTokenEnv, post, sessions, entry, authorization, pc,
                   githubTokenHeader, githubToken, tool, args, token, calls, inflight,
                   responses, results, errors, result>>

NextRequests ==
    \/ \E i \in Slots : SlotHandler(i)
    \/ \E i \in Slots : SlotCallback(i)
    \/ \E i \in Slots : SlotResume(i)
    \/ \E i \in Slots : SlotRespond(i)

SpecRequests == Init /\ [][NextRequests]_vars

\* ------------------------------------------------------ claims: helpers
\* the add_sub_issues callback is the one that ran
Batch == tool = "add_sub_issues" /\ tool \in Registered[entry]
Ids == args.sub_issue_ids
Answered == DOMAIN responses

\* the remote answered with a 2xx status and a body that parses as JSON
Succeeded(r) ==
    /\ r.kind = "http"
    /\ r.status \in 200..299
    /\ r.json \notin {"malformed", "aborted"}

\* the identifiers of the answered entries that succeeded (want) or failed (~want),
\* in input order
RECURSIVE PickIds(_, _)
PickIds(k, want) ==
    IF k = 0 THEN <<>>
    ELSE IF k \in Answered /\ (Succeeded(responses[k]) <=> want)
    THEN Append(PickIds(k - 1, want), Ids[k])
    ELSE PickIds(k - 1, want)

HasAuthorization(c) == "Authorization" \in DOMAIN c.headers

\* ---------------------------------------------------------------- claims

\* C1: add_sub_issues with a non-empty list issues exactly one POST per list entry,
\* in input order: the calls issued so far are the POSTs of a prefix of the list,
\* and when the handler is done every entry has been posted and answered exactly
\* once, whatever the earlier entries' outcomes were.
C1_OnePostPerEntryInOrder ==
    (Batch /\ Len(Ids) > 0) =>
        /\ Len(calls) <= Len(Ids)
        /\ \A k \in 1..Len(calls) :
            /\ calls[k].method = "POST"
            /\ calls[k].body = RequestBody(Ids[k], args.replace_parent)
        /\ pc = "done" => (Len(calls) = Len(Ids) /\ Answered = 1..Len(Ids))

C1_Witness ==
    /\ Batch
    /\ pc = "done"
    /\ Ids = <<101, 102>>
    /\ responses[1].kind = "transport"
    /\ responses[2].status = 201
    /\ Len(calls) = 2

\* C2: add_sub_issues never returns an error result for a non-empty list, also
\* when every item failed.
C2_BatchNeverIsError ==
    (Batch /\ Len(Ids) > 0 /\ pc = "done") => result.isError = FALSE

C2_Witness ==
    /\ Batch
    /\ pc = "done"
    /\ Len(Ids) = 2
    /\ Len(results) = 0
    /\ Len(errors) = 2
    /\ result.isError = FALSE

\* C3: when add_sub_issues finishes, successes and failures partition the list
\* in input order: the success list names exactly the entries whose POST returned
\* 2xx with a parseable body, the failure list names exactly the others, and the
\* summary reports <number of such successes>/<length of the list>.
C3_OutcomesPartitionTheList ==
    (Batch /\ Len(Ids) > 0 /\ pc = "done") =>
        LET okIds == PickIds(Len(Ids), TRUE)
            badIds == PickIds(Len(Ids), FALSE)
            head == <<"Batch operation completed: ">> \o Digits(Len(okIds))
                        \o <<"/">> \o Digits(Len(Ids)) \o <<" sub-issues added successfully to issue #">>
        IN  /\ Len(results) + Len(errors) = Len(Ids)
            /\ Len(results) = Len(okIds)
            /\ Len(errors) = Len(badIds)
            /\ \A j \in 1..Len(results) :
                results[j] = SuccessText(args, okIds[j])
            /\ \A j \in 1..Len(errors) :
                LET name == <<"Sub-issue ID ">> \o Digits(badIds[j]) \o <<": ">>
                IN  SubSeq(errors[j], 1, Len(name)) = name
            /\ SubSeq(result.text, 1, Len(head)) = head

C3_Witness ==
    /\ Batch
    /\ pc = "done"
    /\ Ids = <<101, 102>>
    /\ responses[1].status = 404
    /\ responses[2].status = 201
    /\ Len(results) = 1
    /\ Len(errors) = 1

\* C4: add_sub_issues with an empty list returns at once (it is never suspended),
\* with a non-error message saying that no identifiers were provided, and issues
\* no remote call.
C4_EmptyListSoftMessage ==
    (Batch /\ Len(Ids) = 0) =>
        /\ pc = "done"
        /\ calls = <<>>
        /\ result.isError = FALSE
        /\ result.text = NoIdsText

C4_Witness ==
    /\ Batch
    /\ Len(Ids) = 0
    /\ pc = "done"
    /\ result.text = NoIdsText

\* C5: within one add_sub_issues invocation at most one write call is in flight:
\* only the latest call can be pending, every earlier one has been answered, and
\* the handler is not done while a call is pending.
C5_OneWriteInFlight ==
    Batch =>
        /\ Cardinality(inflight) <= 1
        /\ inflight \subseteq {Len(calls)}
        /\ Answered = (1..Len(calls)) \ inflight
        /\ pc = "done" => inflight = {}

C5_Witness ==
    /\ Batch
    /\ pc = "await"
    /\ Len(Ids) = 2
    /\ Len(calls) = 2
    /\ inflight = {2}
    /\ Answered = {1}

\* C6: the credential of a request is the X-GITHUB-TOKEN value when it is present
\* and non-empty, otherwise the process-wide fallback, otherwise none; a request
\* token wins over a configured fallback, and it is the one outbound calls carry.
C6_CredentialResolution ==
    (pc # "idle" /\ tool \in Registered[entry]) =>
        LET requestScoped == githubTokenHeader \notin {Undefined, ""}
        IN  /\ requestScoped => token = githubTokenHeader
            /\ (~requestScoped /\ env # Undefined) => token = env
            /\ (~requestScoped /\ env = Undefined) => token = Undefined
            /\ (token \notin {Undefined, ""}) =>
                 \A k \in 1..Len(calls) :
                    /\ HasAuthorization(calls[k])
                    /\ calls[k].headers["Authorization"] = <<"token ", token>>

C6_Witness ==
    /\ pc = "await"
    /\ githubTokenHeader = "ghp_request"
    /\ env = "ghp_env"
    /\ Len(calls) = 1
    /\ calls[1].headers["Authorization"] = <<"token ", "ghp_request">>

\* C7 (as claimed): every outbound call carries an Authorization header if and only
\* if a credential was resolved, and then its value is `token <credential>`.
C7_AuthorizationIffCredential ==
    \A k \in 1..Len(calls) :
        /\ HasAuthorization(calls[k]) <=> (token \notin {Undefined, ""})
        /\ HasAuthorization(calls[k]) =>
             calls[k].headers["Authorization"] = <<"token ", token>>

\* C8: for the three lookup tools a 404 from the remote yields a non-error result
\* whose text names the owner, the repo and the issue number of the call.
C8_NotFoundIsSoft ==
    (pc = "done" /\ tool \in SoftTools /\ 1 \in Answered /\ responses[1].kind = "http"
        /\ responses[1].status = 404) =>
        /\ result.isError = FALSE
        /\ Includes(result.text, <<args.owner>>)
        /\ Includes(result.text, <<args.repo>>)
        /\ Includes(result.text, Digits(args.issue_number))

C8_Witness ==
    /\ pc = "done"
    /\ tool = "get_id_of_issue"
    /\ responses[1].status = 404
    /\ responses[1].statusText = <<>>
    /\ args.issue_number = 7
    /\ result.isError = FALSE

\* C9 (as claimed): for the three lookup tools the soft not-found message is
\* produced only when the remote response status is 404.
C9_SoftOnlyOn404 ==
    (pc = "done" /\ tool \in SoftTools /\ result.text = SoftText(tool, args)) =>
        /\ responses[1].kind = "http"
        /\ responses[1].status = 404

\* C10 (as claimed): for the three lookup tools a remote HTTP failure with a status
\* other than 404 yields an error result whose text contains the status code.
C10_OtherFailureIsError ==
    (pc = "done" /\ tool \in SoftTools /\ 1 \in Answered /\ responses[1].kind = "http"
        /\ responses[1].status \notin 200..299 /\ responses[1].status # 404) =>
        /\ result.isError = TRUE
        /\ Includes(result.text, Digits(responses[1].status))

\* ------------------------------------------- claims about the standalone server
\* the standalone server's handler ran one of its five cases
ServerCase == entry = "index" /\ pc # "idle" /\ tool \in Registered.index

\* what the tool descriptions of ListTools say of each argument
ExpectedType ==
    [f \in AllFields |-> IF f \in {"limit", "pull_number"} THEN "number" ELSE "string"]

RequiredOf(name) ==
    IF name \in {"get_repository_info", "list_repository_issues"} THEN {"owner", "repo"}
    ELSE IF name = "get_pull_request" THEN {"owner", "repo", "pull_number"}
    ELSE IF name = "search_repositories" THEN {"query"}
    ELSE {"username"}

OptionalOf(name) ==
    IF name = "list_repository_issues" THEN {"state", "limit"}
    ELSE IF name = "search_repositories" THEN {"sort", "limit"}
    ELSE {}

MissesRequired(name, bag) == \E f \in RequiredOf(name) : bag[f].t = "absent"

WrongTyped(name, bag) ==
    \E f \in RequiredOf(name) \cup OptionalOf(name) :
        bag[f].t \notin {"absent", ExpectedType[f]}

\* C11: an argument bag that misses a required field or holds a wrong-typed value
\* is rejected with a tool-level error, and no remote call is issued for it.
C11_InvalidArgumentsRejected ==
    (ServerCase /\ (MissesRequired(tool, args) \/ WrongTyped(tool, args))) =>
        /\ pc = "done"
        /\ calls = <<>>
        /\ result.isError
        /\ result.text[1] = "Error: "

C11_Witness ==
    /\ ServerCase
    /\ pc = "done"
    /\ tool = "get_pull_request"
    /\ args["owner"].t = "string"
    /\ args["repo"].t = "string"
    /\ args["pull_number"].t = "string"
    /\ calls = <<>>
    /\ result.isError

\* C12 (as claimed): a remote HTTP error or a transport or malformed-payload failure
\* yields a result with isError true whose text holds the status code and the
\* response's body text unchanged.
C12_RemoteFailureIsError ==
    (ServerCase /\ pc = "done" /\ 1 \in Answered /\ ~Succeeded(responses[1])) =>
        /\ result.isError
        /\ (responses[1].kind = "http" /\ ~ResponseOk(responses[1])
               /\ responses[1].json # "aborted") =>
             /\ Includes(result.text, Digits(responses[1].status))
             /\ Includes(result.text, responses[1].bodyText)

\* C14 (as claimed): a tools/call for a name that is not registered is answered with
\* an RPC-level error, never with a tool result, and issues no remote call.
C14_UnknownToolIsRpcError ==
    (entry = "index" /\ pc = "done" /\ tool \in RequestedNames \ Registered.index) =>
        /\ result.code # 0
        /\ ~result.isError
        /\ calls = <<>>

\* C15 (as claimed): the credential of a request is the raw value of its
\* X-GITHUB-TOKEN header and no other inbound header supplies it.
C15_CredentialFromGithubTokenHeader ==
    ServerCase =>
        /\ token = RequestToken(githubTokenHeader)
        /\ \A k \in 1..Len(calls) :
              HasAuthorization(calls[k]) <=> Truthy(githubTokenHeader)

\* C17 (as claimed): search_repositories without sort and order builds an endpoint
\* holding q=<percent-encoded query> and order=desc and no sort= parameter; with a
\* sort supplied the endpoint holds sort=<that value>.
C17_SearchEndpoint ==
    (ServerCase /\ tool = "search_repositories" /\ Len(calls) = 1) =>
        LET url == calls[1].url
            q == EncodeURIComponent(args["query"].s)
        IN  /\ \E i \in 1..Len(url) :
                  /\ url[i] = "/search/repositories?q="
                  /\ SubSeq(url, i + 1, i + Len(q)) = q
            /\ args["sort"].t = "absent" =>
                  /\ \A i \in 1..Len(url) : url[i] # "&sort="
                  /\ \E i \in 1..(Len(url) - 1) : url[i] = "&order=" /\ url[i + 1] = "desc"
            /\ args["sort"].t # "absent" =>
                  \E i \in 1..Len(url) :
                      /\ url[i] = "&sort="
                      /\ SubSeq(url, i + 1, i + Len(args["sort"].s)) = args["sort"].s

\* C19: the client never retries.  An invocation of a tool other than the batch tool
\* issues at most one remote call, and once that call is answered, failed or not,
\* the handler returns without issuing it again.
C19_NoRetry ==
    (entry = "index" /\ tool # "add_sub_issues") =>
        /\ Len(calls) <= 1
        /\ 1 \in Answered => (pc = "done" /\ Answered = {1})

C19_Witness ==
    /\ ServerCase
    /\ pc = "done"
    /\ Len(calls) = 1
    /\ 1 \in Answered
    /\ responses[1].kind = "http"
    /\ responses[1].status = 500

NoResultsOpenings == {"No ", "No sub-issues found for issue #"}

\* C13 (as claimed): list_repository_issues and list_sub_issues answer a successful
\* call that returned an empty list with a non-error message saying that there are
\* no results, not with a listing.
C13_EmptyListIsNoResultsMessage ==
    (pc = "done" /\ tool \in {"list_repository_issues", "list_sub_issues"}
       /\ 1 \in Answered /\ Succeeded(responses[1]) /\ responses[1].json = "emptyArray") =>
        /\ ~result.isError
        /\ result.code = 0
        /\ result.text[1] \in NoResultsOpenings

\* C16 (as claimed): a request without a token sends its outbound calls with the
\* value of the GITHUB_TOKEN environment variable, when that variable is set.
C16_FallbackIsGithubTokenEnv ==
    (pc # "idle" /\ tool \in Registered[entry] /\ ~Truthy(githubTokenHeader)
       /\ Truthy(githubTokenEnv)) =>
        \A k \in 1..Len(calls) :
            /\ HasAuthorization(calls[k])
            /\ calls[k].headers["Authorization"] = <<"token ", githubTokenEnv>>

\* C18 (as claimed): every documented tool is registered in the /mcp handler, so a
\* tools/call for any of the nine names never gets the unknown-tool answer.
C18_DocumentedToolsRegistered ==
    (pc = "done" /\ entry \in McpHandlerEntries /\ tool \in ToolNames) =>
        result \notin ToolNotFoundOutcomes(tool)

\* --------------------------------------------------- claims about the batch body
ReplaceParentKeys == {",\"replace_parent\":true", ",\"replace_parent\":"}

\* C23: every POST body of add_sub_issues names in sub_issue_id the list entry it
\* is sent for, and holds the key replace_parent only when the argument is true.
C23_PostBody ==
    Batch =>
        \A k \in 1..Len(calls) :
            LET body == calls[k].body
                id == Digits(Ids[k])
            IN  /\ body[1] = "{\"sub_issue_id\":"
                /\ SubSeq(body, 2, 1 + Len(id)) = id
                /\ body[2 + Len(id)] \in ReplaceParentKeys \cup {"}"}
                /\ (\E j \in 1..Len(body) : body[j] \in ReplaceParentKeys)
                      <=> args.replace_parent

C23_Witness ==
    /\ Batch
    /\ pc = "done"
    /\ Len(calls) = 2
    /\ ~args.replace_parent
    /\ Ids[1] # Ids[2]
    /\ calls[2].body = <<"{\"sub_issue_id\":">> \o Digits(Ids[2]) \o <<"}">>

\* ------------------------------------- claims about ranges and endpoint shapes
\* C25: list_repository_issues of the standalone server accepts a limit only in
\* 1..100; an accepted limit is the per_page sent (10 when absent, state open when
\* absent), and a limit outside the range is rejected with an error naming the
\* field, before any remote call.
C25_LimitRange ==
    (ServerCase /\ tool = "list_repository_issues"
       /\ args["owner"].t = "string" /\ args["repo"].t = "string"
       /\ args["limit"].t \in {"absent", "number"}
       /\ (args["state"].t = "absent" \/ args["state"].s \in {<<"open">>, <<"closed">>, <<"all">>})) =>
        LET lim == args["limit"]
            sent == IF lim.t = "absent" THEN 10 ELSE lim.n
            state == IF args["state"].t = "absent" THEN <<"open">> ELSE args["state"].s
        IN  IF lim.t = "number" /\ (lim.n < 1 \/ lim.n > 100)
            THEN /\ pc = "done"
                 /\ calls = <<>>
                 /\ result.isError
                 /\ Includes(result.text, <<"limit">>)
            ELSE /\ Len(calls) = 1
                 /\ LET url == calls[1].url
                        tail == <<"/issues?state=">> \o state \o <<"&per_page=">> \o Digits(sent)
                    IN  /\ Len(url) > Len(tail)
                        /\ SubSeq(url, Len(url) - Len(tail) + 1, Len(url)) = tail

C25_Witness ==
    /\ ServerCase
    /\ tool = "list_repository_issues"
    /\ pc = "done"
    /\ args["owner"].t = "string"
    /\ args["repo"].t = "string"
    /\ args["state"].t = "absent"
    /\ args["limit"] = Num(101)
    /\ calls = <<>>
    /\ result.isError

\* C26 (as claimed): list_sub_issues never forwards a per_page above the documented
\* maximum of 100.
C26_PerPageAtMost100 ==
    (tool = "list_sub_issues" /\ tool \in Registered[entry] /\ Len(calls) = 1) =>
        ~(/\ args.per_page > 100
          /\ Includes(calls[1].url,
                      <<"/sub_issues?per_page=">> \o Digits(args.per_page) \o <<"&page=">>))

\* the characters that end a path segment or start a query parameter
Delimiters == {"/", "?", "&", "#"}

\* the delimiters the endpoint template of a tool holds between its placeholders
\* (the ones inside its literal pieces are not counted)
TemplateDelimiters(name) ==
    IF name \in {"get_repository_info", "list_repository_issues", "get_pull_request"}
    THEN 1 ELSE 0

\* C27 (as claimed): an accepted owner, repo or username adds no path segment and no
\* query parameter to the endpoint.
C27_EndpointShape ==
    (ServerCase /\ Len(calls) = 1) =>
        LET url == calls[1].url
        IN  Cardinality({i \in 1..Len(url) : url[i] \in Delimiters})
                = TemplateDelimiters(tool)

\* C28: the tool listing of the standalone server returns, on every call, the same
\* names in the same order, none of them twice, and they are exactly the names the
\* call dispatcher has a case for.
C28_ListingMatchesDispatch ==
    (entry = "index" /\ pc = "done" /\ tool = "tools/list") =>
        LET names == result.text
        IN  /\ names = IndexListedTools
            /\ {names[i] : i \in 1..Len(names)} = Registered.index
            /\ \A i, j \in 1..Len(names) : names[i] = names[j] => i = j
            /\ calls = <<>>

C28_Witness ==
    /\ entry = "index"
    /\ pc = "done"
    /\ tool = "tools/list"
    /\ Len(result.text) = 5
    /\ result.text[1] = "get_repository_info"

\* ------------------------------------------------- claims about termination
\* C24: add_sub_issues terminates.  When every remote call is eventually answered,
\* a handler that waits for an answer eventually returns its one result, having
\* made exactly as many calls as the list has entries, all of them answered.
C24_BatchTerminates ==
    (Batch /\ pc = "await") ~>
        (Batch /\ pc = "done" /\ Len(calls) = Len(Ids) /\ Answered = 1..Len(Ids)
           /\ result # NoResult)

C24_Witness ==
    /\ Batch
    /\ pc = "done"
    /\ Len(Ids) = 2
    /\ Len(calls) = 2
    /\ Answered = {1, 2}
    /\ Len(errors) = 1
    /\ Len(results) = 1

\* -------------------------------------- claims about the hand-written JSON-RPC route
\* C29 (as claimed): a POST whose body is valid JSON is never answered with the
\* Parse error and HTTP 400: its response echoes the request id and carries, if an
\* error at all, another one.
C29_ValidJsonIsNotParseError ==
    (entry = "part_000" /\ pc = "done" /\ post.body.json # "unparseable") =>
        /\ result.code # ParseError
        /\ post.status # 400
        /\ post.id = post.body.id

\* ---------------------------------------- claims about the per-request server route
\* C30 (as claimed): every Server and transport created for a POST is closed before
\* the POST's response is returned, on every path.
C30_ClosedBeforeReturn ==
    (entry = "part_001" /\ sessions.pc = "returned") =>
        \A k \in 1..Len(sessions.objects) : sessions.objects[k].closed

\* ------------------------------------------------ claims about concurrent requests
\* the credential a request supplies itself
OwnToken(req) ==
    IF req.entry = "route"
    THEN (IF req.header \notin {Undefined, ""} THEN req.header ELSE Undefined)
    ELSE IF req.authorization = NoHeader THEN Undefined
    ELSE req.authorization[2]

\* C21: under every interleaving of concurrent requests, each outbound call carries
\* the credential of its own request, or the process-wide fallback where the entry
\* point has one and the request has none; never the token of another request.
C21_NoCrossRequestToken ==
    \A i \in Slots :
        \A k \in 1..Len(requests[i].calls) :
            LET c == requests[i].calls[k]
                own == OwnToken(requests[i])
                expected == IF own # Undefined THEN own
                            ELSE IF requests[i].entry = "route" THEN env
                            ELSE Undefined
            IN  IF expected \in {Undefined, ""}
                THEN ~HasAuthorization(c)
                ELSE /\ HasAuthorization(c)
                     /\ c.headers["Authorization"] = <<"token ", expected>>

C21_Witness ==
    /\ requests[1].pc = "await"
    /\ requests[2].pc = "await"
    /\ requests[1].entry = "route"
    /\ requests[2].entry = "index"
    /\ HasAuthorization(requests[1].calls[1])
    /\ HasAuthorization(requests[2].calls[1])
    /\ requests[1].calls[1].headers["Authorization"] = <<"token ", "ghp_other">>
    /\ requests[2].calls[1].headers["Authorization"] = <<"token ", "ghp_mine">>

====
